---- MODULE Spec2Model ----
(***************************************************************************)
(* Hockey session signup and team split: the express/better-sqlite3        *)
(* backend (src/server.ts) and the React viewer (src/unnamed/part_000).    *)
(*                                                                         *)
(* The backend owns the table current_game and pushes JSON events over a   *)
(* WebSocket per viewer.  Every viewer keeps a projection (gamePlayers)    *)
(* that it patches from events or replaces from a GET /api/current-game.   *)
(* A route handler of the backend is synchronous (better-sqlite3), so one  *)
(* request is one atomic step of the registry.  A request, POST or GET, is *)
(* handled in the step in which the viewer sends it: what it carries is    *)
(* fixed when it is sent.  What comes back travels on its own: an event    *)
(* waits in the viewer's socket, the snapshot of a GET waits in responses, *)
(* and the suspension of splitTeams separates its two steps.               *)
(***************************************************************************)
EXTENDS Integers, Sequences, FiniteSets, TLC

VARIABLES
    current_game,   \* server.ts:22 rows of table current_game, in rowid order
    nextId,         \* server.ts:23 the AUTOINCREMENT sequence of current_game
    gamePlayers,    \* part_000:38 per viewer: the projection
    loading,        \* part_000:41 per viewer: initial fetch not finished yet
    isShuffling,    \* part_000:42 per viewer: a split is suspended
    closure,        \* part_000:162 per viewer: gamePlayers captured by the running splitTeams
    socket,         \* server.ts:42 per viewer: events sent and not yet handled (FIFO)
    open,           \* server.ts:41 per viewer: readyState = OPEN
    responses,      \* part_000:52 per viewer: snapshots served and not yet received
    reply,          \* the last request: who made it and what the requester is told
    clicks,         \* per viewer: buttons pressed so far in this run
    input,          \* BalancingEngine harness: the gamePlayers handed to splitTeams
    shuffled,       \* BalancingEngine harness: the three shuffled pools
    output,         \* BalancingEngine harness: the teamsUpdate computed from them
    emitted,        \* history: events the registry has emitted (calls of broadcast)
    received,       \* history, per viewer: seq of the last event it handled
    closedAt        \* history, per viewer: events emitted when its connection
                    \* closed, -1 while it is open

vars == <<current_game, nextId, gamePlayers, loading, isShuffling, closure,
          socket, open, responses, reply, clicks, input, shuffled, output,
          emitted, received, closedAt>>

(***************************************************************************)
(* Program constants                                                       *)
(***************************************************************************)
CAPACITY == 22
MIN_PLAYERS == 2
GOALIE_QUOTA == 1
DEFENSE_QUOTA == 4
FORWARD_QUOTA == 6

(***************************************************************************)
(* Bounds of the model                                                     *)
(***************************************************************************)
NumViewers == 2      \* viewers 1..NumViewers
MaxClicks == 3       \* buttons pressed by all viewers in one run
MaxRows == 1         \* a viewer presses the buttons of the last MaxRows rows it shows
MaxQueue == 2        \* events waiting in one socket
MaxFetch == 1        \* snapshot fetches in flight per viewer
MaxRandom == 1       \* draws of one shuffle of a split a viewer runs: 0..MaxRandom
MaxDraw == 3         \* draws of one shuffle of the BalancingEngine harness: 0..MaxDraw
MaxGoalies == 3      \* pool sizes of the BalancingEngine harness
MaxDefenders == 9
MaxForwards == 13
MaxItems == 2        \* updates in the list of one direct request to the split route
MaxPosts == 2        \* direct requests to the split route that are applied

Viewers == 1..NumViewers
Positions == {"goalie", "defense", "forward"}
Teams == {"red", "blue", "null"}

Min(a, b) == IF a <= b THEN a ELSE b
Max(a, b) == IF a >= b THEN a ELSE b


(***************************************************************************)
(* Data                                                                    *)
(***************************************************************************)
\* server.ts:74 the row a signup inserts and broadcasts (team NULL)
Participant(id, name, position, team) ==
    [id |-> id, name |-> name, position |-> position, team |-> team]

\* server.ts:16 table players as the viewers see it (regulars): the entries
\* whose signup button is pressed in a run.  Two entries share name 22.
Regulars ==
    { [name |-> 22, position |-> "goalie"],
      [name |-> 22, position |-> "forward"],
      [name |-> 23, position |-> "goalie"] }
Namesakes == {player \in Regulars : player.name = 22}

\* Position of the i-th row of the full initial table: 2 goalies, 8 defenders,
\* 11 forwards.
InitialPosition(i) ==
    IF i <= 2 THEN "goalie" ELSE IF i <= 10 THEN "defense" ELSE "forward"

\* server.ts:12 hockey.db outlives the process: the table a run starts from.
\* Each is a table that signups alone produce: ids 1..n in insertion order,
\* distinct names, every team NULL.
InitialRows(n) == [i \in 1..n |-> Participant(i, i, InitialPosition(i), "null")]
InitialGames == { InitialRows(0), InitialRows(MIN_PLAYERS) }
AlmostFull == InitialRows(CAPACITY - 1)

Ids(rows) == {rows[i].id : i \in DOMAIN rows}
Names(rows) == {rows[i].name : i \in DOMAIN rows}
Count(rows, position, team) ==
    Cardinality({i \in DOMAIN rows :
                    rows[i].position = position /\ rows[i].team = team})
Available(rows, position) ==
    Cardinality({i \in DOMAIN rows : rows[i].position = position})
Quota(position) ==
    IF position = "goalie" THEN GOALIE_QUOTA
    ELSE IF position = "defense" THEN DEFENSE_QUOTA ELSE FORWARD_QUOTA

(***************************************************************************)
(* BalancingEngine: splitTeams, part_000:173-202                           *)
(***************************************************************************)
\* Array.prototype.filter by position, part_000:173-175
filter(array, position) == SelectSeq(array, LAMBDA p : p.position = position)

Reverse(array) == [i \in 1..Len(array) |-> array[Len(array) + 1 - i]]
Rotate(array, k) ==
    [i \in 1..Len(array) |-> array[((i - 1 + k) % Len(array)) + 1]]

\* part_000:177 [...array].sort(() => Math.random() - 0.5): a permutation of
\* array that the random draws decide.  r stands for the draws of one call;
\* the outcomes modelled are the rotations of array, each also reversed.
shuffle(array, r) ==
    IF Len(array) = 0 THEN array
    ELSE IF r % 2 = 1 THEN Reverse(Rotate(array, r \div 2))
    ELSE Rotate(array, r \div 2)

\* slice with its end taken as inclusive
sliceInclusive(array, from, to) ==
    IF from >= Len(array) THEN << >>
    ELSE SubSeq(array, from + 1, IF to + 1 <= Len(array) THEN to + 1 ELSE Len(array))

\* Array.prototype.slice(from, to) with 0-based from and exclusive to
slice(array, from, to) ==
    IF from >= Len(array) THEN << >>
    ELSE SubSeq(array, from + 1, Min(to, Len(array)))

\* ResetAll pushing the team the row has instead of null
KeepTeams(players) ==
    [i \in 1..Len(players) |-> [id |-> players[i].id, team |-> players[i].team]]

\* part_000:186 gamePlayers.forEach(p => teamsUpdate.push({id, team: null}))
ResetAll(players) ==
    [i \in 1..Len(players) |-> [id |-> players[i].id, team |-> "null"]]

\* part_000:189 teamsUpdate.find(u => u.id === id)!.team = team: the first
\* entry with that id is overwritten
SetTeam(teamsUpdate, id, team) ==
    LET hits == {i \in DOMAIN teamsUpdate : teamsUpdate[i].id = id}
        first == CHOOSE i \in hits : \A j \in hits : i <= j
    IN  IF hits = {} THEN teamsUpdate
        ELSE [teamsUpdate EXCEPT ![first].team = team]

\* part_000:195 players.forEach(p => teamsUpdate.find(...)!.team = team)
RECURSIVE AssignEach(_, _, _)
AssignEach(teamsUpdate, players, team) ==
    IF players = << >> THEN teamsUpdate
    ELSE AssignEach(SetTeam(teamsUpdate, Head(players).id, team),
                    Tail(players), team)

\* part_000:188-190 one goalie per team
AssignGoalies(teamsUpdate, sGoalies) ==
    LET red == IF Len(sGoalies) >= 1
               THEN SetTeam(teamsUpdate, sGoalies[1].id, "red")
               ELSE teamsUpdate
    IN  IF Len(sGoalies) >= 2 THEN SetTeam(red, sGoalies[2].id, "blue") ELSE red

\* part_000:192-196 four defenders per team
AssignDefenders(teamsUpdate, sDefenders) ==
    AssignEach(
        AssignEach(teamsUpdate, slice(sDefenders, 0, DEFENSE_QUOTA), "red"),
        slice(sDefenders, DEFENSE_QUOTA, 2 * DEFENSE_QUOTA), "blue")

\* part_000:198-202 six forwards per team
AssignForwards(teamsUpdate, sForwards) ==
    AssignEach(
        AssignEach(teamsUpdate, slice(sForwards, 0, FORWARD_QUOTA), "red"),
        slice(sForwards, FORWARD_QUOTA, 2 * FORWARD_QUOTA), "blue")

\* part_000:183-202 teamsUpdate: every row reset, then the quota slices of the
\* three shuffled pools set to red and blue
Assign(players, sGoalies, sDefenders, sForwards) ==
    AssignForwards(
        AssignDefenders(
            AssignGoalies(ResetAll(players), sGoalies), sDefenders),
        sForwards)

\* part_000:173-181 the three pools of the captured gamePlayers, shuffled; rg,
\* rd, rf are the draws of the three shuffles
Pools(players, rg, rd, rf) ==
    [goalie |-> shuffle(filter(players, "goalie"), rg),
     defense |-> shuffle(filter(players, "defense"), rd),
     forward |-> shuffle(filter(players, "forward"), rf)]

\* part_000:173-208 the body of the request splitTeams sends
TeamsUpdate(players, rg, rd, rf) ==
    LET s == Pools(players, rg, rd, rf)
    IN  Assign(players, s.goalie, s.defense, s.forward)

(***************************************************************************)
(* Backend: src/server.ts                                                  *)
(***************************************************************************)
\* broadcast putting the message ahead of what waits in the socket
broadcastAhead(message) ==
    [v \in Viewers |->
        IF open[v] THEN <<message>> \o socket[v] ELSE socket[v]]

\* broadcast without the test of line 41: the send to the first client that
\* is not open throws and no client after it is reached
broadcastUntilClosed(message) ==
    [v \in Viewers |->
        IF \A w \in 1..v : open[w] THEN Append(socket[v], message) ELSE socket[v]]

\* server.ts:38-45 the sockets after broadcast(message): sent to every client
\* whose readyState is OPEN.  Every message is kept with seq, its place in the
\* order of the calls of broadcast (history, no field of the JSON).
broadcast(message) ==
    [v \in Viewers |-> IF open[v] THEN Append(socket[v], message) ELSE socket[v]]

\* server.ts:68 SELECT * FROM current_game WHERE name = ?
existing(name) == \E i \in DOMAIN current_game : current_game[i].name = name

\* server.ts:82 DELETE FROM current_game WHERE id = ?
DeleteRow(rows, id) == SelectSeq(rows, LAMBDA p : p.id # id)

\* UpdateRow as an upsert: an id that matches no row gets a row
UpsertRow(rows, team, id) ==
    IF \E i \in DOMAIN rows : rows[i].id = id
    THEN [i \in DOMAIN rows |->
             IF rows[i].id = id THEN [rows[i] EXCEPT !.team = team] ELSE rows[i]]
    ELSE Append(rows, [id |-> id, name |-> id, position |-> "forward",
                       team |-> team])

\* UpdateRow without its WHERE clause: every row takes the team
UpdateEveryRow(rows, team, id) ==
    [i \in DOMAIN rows |-> [rows[i] EXCEPT !.team = team]]

\* server.ts:89 UPDATE current_game SET team = ? WHERE id = ?
UpdateRow(rows, team, id) ==
    [i \in DOMAIN rows |->
        IF rows[i].id = id THEN [rows[i] EXCEPT !.team = team] ELSE rows[i]]

\* server.ts:94 a team that is no string and not null (true, false, an
\* object) cannot be bound to the statement
Unbindable == "boolean"

\* server.ts:94 update.run(item.team, item.id) throws a TypeError
Throws(item) == item.team \notin Teams

\* server.ts:93-95 the loop: one UPDATE per item of the list, in order, up to
\* the first item that throws
RECURSIVE updateEach(_, _)
updateEach(rows, teamsList) ==
    IF teamsList = << >> \/ Throws(Head(teamsList)) THEN rows
    ELSE updateEach(UpdateRow(rows, Head(teamsList).team, Head(teamsList).id),
                    Tail(teamsList))

\* server.ts:97 the exception leaves transaction(teams) and the handler
Thrown(teamsList) == \E i \in DOMAIN teamsList : Throws(teamsList[i])

\* The loop run without db.transaction: every UPDATE is committed as it runs
autocommit(rows, teamsList) == updateEach(rows, teamsList)

\* server.ts:91-97 db.transaction(...)(teams): the rows after COMMIT, or after
\* ROLLBACK when the loop threw
transaction(rows, teamsList) ==
    IF Thrown(teamsList) THEN rows ELSE updateEach(rows, teamsList)

\* What the requester v learns of its request: res.json / res.status(400) of
\* the route, or the alert the viewer raises without sending it
Reply(v, op, result) == [viewer |-> v, op |-> op, result |-> result]

\* PostSignup without the test of line 69: every request inserts
PostSignupUnchecked(v, name, position) ==
    LET signup == Participant(nextId, name, position, "null")
    IN  /\ current_game' = Append(current_game, signup)
        /\ nextId' = nextId + 1
        /\ socket' = broadcast([type |-> "SIGNUP_UPDATE", data |-> signup,
                                   seq |-> emitted + 1])
        /\ emitted' = emitted + 1
        /\ reply' = Reply(v, "signup", "ok")

\* PostSignup with the broadcast of line 76 moved above the test of line 69
PostSignupEager(v, name, position) ==
    LET signup == Participant(nextId, name, position, "null")
    IN  /\ socket' = broadcast([type |-> "SIGNUP_UPDATE", data |-> signup,
                                   seq |-> emitted + 1])
        /\ emitted' = emitted + 1
        /\ IF existing(name)
           THEN /\ reply' = Reply(v, "signup", "duplicate")
                /\ UNCHANGED <<current_game, nextId>>
           ELSE /\ current_game' = Append(current_game, signup)
                /\ nextId' = nextId + 1
                /\ reply' = Reply(v, "signup", "ok")

\* PostSignup on a table without AUTOINCREMENT: the new id is one more than
\* the largest id in the table
PostSignupRowid(v, name, position) ==
    IF existing(name)
    THEN /\ reply' = Reply(v, "signup", "duplicate")
         /\ UNCHANGED <<current_game, nextId, socket, emitted>>
    ELSE LET largest == IF current_game = << >> THEN 0
                        ELSE CHOOSE id \in Ids(current_game) :
                                 \A other \in Ids(current_game) : other <= id
             signup == Participant(largest + 1, name, position, "null")
         IN  /\ current_game' = Append(current_game, signup)
             /\ nextId' = largest + 2
             /\ socket' = broadcast([type |-> "SIGNUP_UPDATE", data |-> signup,
                                       seq |-> emitted + 1])
             /\ emitted' = emitted + 1
             /\ reply' = Reply(v, "signup", "ok")

\* PostSignup whose INSERT puts the new row on red
PostSignupOnRed(v, name, position) ==
    IF existing(name)
    THEN /\ reply' = Reply(v, "signup", "duplicate")
         /\ UNCHANGED <<current_game, nextId, socket, emitted>>
    ELSE LET signup == Participant(nextId, name, position, "red")
         IN  /\ current_game' = Append(current_game, signup)
             /\ nextId' = nextId + 1
             /\ socket' = broadcast([type |-> "SIGNUP_UPDATE", data |-> signup,
                                       seq |-> emitted + 1])
             /\ emitted' = emitted + 1
             /\ reply' = Reply(v, "signup", "ok")

\* server.ts:65-78 POST /api/current-game/signup
PostSignup(v, name, position) ==
    IF existing(name)
    THEN /\ reply' = Reply(v, "signup", "duplicate")   \* 400, line 70
         /\ UNCHANGED <<current_game, nextId, socket, emitted>>
    ELSE LET signup == Participant(nextId, name, position, "null")
         IN  /\ current_game' = Append(current_game, signup)
             /\ nextId' = nextId + 1
             /\ socket' = broadcast([type |-> "SIGNUP_UPDATE", data |-> signup,
                                       seq |-> emitted + 1])
             /\ emitted' = emitted + 1
             /\ reply' = Reply(v, "signup", "ok")

\* PostRemove without the broadcast of line 83
PostRemoveSilent(v, id) ==
    /\ current_game' = DeleteRow(current_game, id)
    /\ reply' = Reply(v, "remove", "ok")
    /\ UNCHANGED <<nextId, socket, emitted>>

\* server.ts:80-85 POST /api/current-game/remove
PostRemove(v, id) ==
    /\ current_game' = DeleteRow(current_game, id)
    /\ socket' = broadcast([type |-> "SIGNUP_REMOVED", id |-> id,
                              seq |-> emitted + 1])
    /\ emitted' = emitted + 1
    /\ reply' = Reply(v, "remove", "ok")
    /\ UNCHANGED nextId

\* server.ts:87-100 POST /api/current-game/split, op the caller: splitTeams
\* ("split") or toggleTeam ("toggle")
PostSplit(v, op, teams) ==
    /\ current_game' = transaction(current_game, teams)
    /\ IF Thrown(teams)
       THEN /\ reply' = Reply(v, op, "error")   \* 500, lines 98-99 not reached
            /\ UNCHANGED <<socket, emitted>>
       ELSE /\ socket' = broadcast([type |-> "TEAMS_UPDATED", seq |-> emitted + 1])
            /\ emitted' = emitted + 1
            /\ reply' = Reply(v, op, "ok")
    /\ UNCHANGED nextId

\* PostReset that answers without an event when the table is empty already
PostResetOnce(v) ==
    /\ current_game' = << >>
    /\ IF current_game = << >>
       THEN UNCHANGED <<socket, emitted>>
       ELSE /\ socket' = broadcast([type |-> "GAME_RESET", seq |-> emitted + 1])
            /\ emitted' = emitted + 1
    /\ reply' = Reply(v, "reset", "ok")
    /\ UNCHANGED nextId

\* server.ts:102-106 POST /api/current-game/reset
PostReset(v) ==
    /\ current_game' = << >>
    /\ socket' = broadcast([type |-> "GAME_RESET", seq |-> emitted + 1])
    /\ emitted' = emitted + 1
    /\ reply' = Reply(v, "reset", "ok")
    /\ UNCHANGED nextId

(***************************************************************************)
(* Viewer: src/unnamed/part_000                                            *)
(***************************************************************************)
RECURSIVE Total(_, _)
Total(f, n) == IF n = 0 THEN 0 ELSE f[n] + Total(f, n - 1)

\* A broadcast fits the sockets of the model
Room == \A v \in Viewers : open[v] => Len(socket[v]) < MaxQueue

\* part_000:236 while loading the viewer renders the spinner and no button;
\* a press of a button is one of the MaxClicks of the run
Ready(v) == ~loading[v] /\ Total(clicks, NumViewers) < MaxClicks
Click(v) == clicks' = [clicks EXCEPT ![v] = @ + 1]

\* part_000:425 the rows the viewer shows; it presses the buttons of the last
\* MaxRows of them
Shown(v) == {i \in DOMAIN gamePlayers[v] : i > Len(gamePlayers[v]) - MaxRows}

\* part_000:108-126 signUp(player), reached through the button of a regular,
\* which is disabled while the name is in the projection (part_000:378)
signUp(v, player) ==
    /\ Ready(v)
    /\ player.name \notin Names(gamePlayers[v])
    /\ IF Len(gamePlayers[v]) >= CAPACITY
       THEN /\ reply' = Reply(v, "signup", "capacity")  \* alert, line 110
            /\ UNCHANGED <<current_game, nextId, socket, emitted>>
       ELSE /\ existing(player.name) \/ Room
            /\ PostSignup(v, player.name, player.position)
    /\ Click(v)
    /\ UNCHANGED <<gamePlayers, loading, isShuffling, closure, open,
                   responses, input, shuffled, output, received,
                   closedAt>>

\* part_000:128-138 removeSignUp(id), the id of a row of the projection
removeSignUp(v, i) ==
    /\ Ready(v)
    /\ i \in Shown(v)
    /\ Room
    /\ PostRemove(v, gamePlayers[v][i].id)
    /\ Click(v)
    /\ UNCHANGED <<gamePlayers, loading, isShuffling, closure, open,
                   responses, input, shuffled, output, received,
                   closedAt>>

\* part_000:140-147 resetGame, confirmed by the user
resetGame(v) ==
    /\ Ready(v)
    /\ Room
    /\ PostReset(v)
    /\ Click(v)
    /\ UNCHANGED <<gamePlayers, loading, isShuffling, closure, open,
                   responses, input, shuffled, output, received,
                   closedAt>>

\* part_000:150 unassigned -> red -> blue -> unassigned, from the team the
\* viewer's row shows
NextTeam(team) ==
    IF team = "red" THEN "blue" ELSE IF team = "blue" THEN "null" ELSE "red"

\* part_000:149-160 toggleTeam(player), player a row of the projection
toggleTeam(v, i) ==
    /\ Ready(v)
    /\ i \in Shown(v)
    /\ Room
    /\ PostSplit(v, "toggle", << [id |-> gamePlayers[v][i].id,
                                  team |-> NextTeam(gamePlayers[v][i].team)] >>)
    /\ Click(v)
    /\ UNCHANGED <<gamePlayers, loading, isShuffling, closure, open,
                   responses, input, shuffled, output, received,
                   closedAt>>

\* part_000:162-171 splitTeams up to the suspension: the button is disabled
\* below MIN_PLAYERS rows and while a split runs (part_000:292), which is the
\* test of line 163 on the same render; the gamePlayers of that render stay
\* captured by the suspended call
SplitBegin(v) ==
    /\ Ready(v)
    /\ ~isShuffling[v]
    /\ Len(gamePlayers[v]) >= MIN_PLAYERS
    /\ isShuffling' = [isShuffling EXCEPT ![v] = TRUE]
    /\ closure' = [closure EXCEPT ![v] = gamePlayers[v]]
    /\ Click(v)
    /\ UNCHANGED <<current_game, nextId, gamePlayers, loading, socket, open,
                   responses, reply, input, shuffled, output, emitted, received,
                   closedAt>>

\* part_000:173-216 splitTeams after the suspension: the update is computed
\* from the captured rows and posted
SplitEnd(v) ==
    /\ isShuffling[v]
    /\ Room
    /\ \E rg, rd, rf \in 0..MaxRandom :
          PostSplit(v, "split", TeamsUpdate(closure[v], rg, rd, rf))
    /\ isShuffling' = [isShuffling EXCEPT ![v] = FALSE]
    /\ closure' = [closure EXCEPT ![v] = << >>]
    /\ UNCHANGED <<gamePlayers, loading, open, responses, clicks,
                   input, shuffled, output, received,
                   closedAt>>

\* part_000:45-52 with server.ts:60-63: fetchData sends GET /api/current-game,
\* which is served with the rows as they stand; the snapshot is on its way.
\* version is the number of events emitted when it was read (history, not in
\* the response).
fetchData(v) ==
    [responses EXCEPT ![v] =
        Append(@, [rows |-> current_game, version |-> emitted])]

\* FetchDone merging the snapshot into the projection by id instead of
\* replacing the projection with it
FetchMerged(v, k) ==
    /\ k \in DOMAIN responses[v]
    /\ gamePlayers' = [gamePlayers EXCEPT ![v] =
            @ \o SelectSeq(responses[v][k].rows,
                           LAMBDA p : \A i \in DOMAIN gamePlayers[v] :
                                          gamePlayers[v][i].id # p.id)]
    /\ loading' = [loading EXCEPT ![v] = FALSE]
    /\ responses' = [responses EXCEPT ![v] =
            SubSeq(@, 1, k - 1) \o SubSeq(@, k + 1, Len(@))]
    /\ UNCHANGED <<current_game, nextId, isShuffling, closure, socket, open,
                   reply, clicks, input, shuffled, output, emitted, received,
                   closedAt>>

\* part_000:52-58 a response arrives (in any order): the projection is replaced
FetchDone(v, k) ==
    /\ k \in DOMAIN responses[v]
    /\ gamePlayers' = [gamePlayers EXCEPT ![v] = responses[v][k].rows]
    /\ loading' = [loading EXCEPT ![v] = FALSE]
    /\ responses' = [responses EXCEPT ![v] =
            SubSeq(@, 1, k - 1) \o SubSeq(@, k + 1, Len(@))]
    /\ UNCHANGED <<current_game, nextId, isShuffling, closure, socket, open,
                   reply, clicks, input, shuffled, output, emitted, received,
                   closedAt>>

\* MergeSignup without the test of lines 73-74: the row is always appended
MergeAlways(prev, data) == Append(prev, data)

\* part_000:72-76 SIGNUP_UPDATE: appended unless the id is in the projection
MergeSignup(prev, data) ==
    IF \E i \in DOMAIN prev : prev[i].id = data.id THEN prev
    ELSE Append(prev, data)

\* part_000:79 SIGNUP_REMOVED
FilterRemoved(prev, id) == SelectSeq(prev, LAMBDA p : p.id # id)

\* part_000:68-86 socket.onmessage for the oldest event of the socket
OnMessage(v) ==
    /\ socket[v] # << >>
    /\ LET message == Head(socket[v])
       IN  /\ socket' = [socket EXCEPT ![v] = Tail(@)]
           /\ IF message.type = "SIGNUP_UPDATE"
              THEN /\ gamePlayers' = [gamePlayers EXCEPT ![v] =
                                         MergeSignup(@, message.data)]
                   /\ UNCHANGED responses
              ELSE IF message.type = "SIGNUP_REMOVED"
              THEN /\ gamePlayers' = [gamePlayers EXCEPT ![v] =
                                         FilterRemoved(@, message.id)]
                   /\ UNCHANGED responses
              ELSE /\ Len(responses[v]) < MaxFetch
                   /\ responses' = fetchData(v)
                   /\ UNCHANGED gamePlayers
    /\ received' = [received EXCEPT ![v] = Head(socket[v]).seq]
    /\ UNCHANGED <<current_game, nextId, loading, isShuffling, closure, open,
                   reply, clicks, input, shuffled, output, emitted,
                   closedAt>>

\* The connection of a viewer drops: readyState leaves OPEN (server.ts:41) and
\* what was sent and not handled is lost
Disconnect(v) ==
    /\ open[v]
    /\ open' = [open EXCEPT ![v] = FALSE]
    /\ socket' = [socket EXCEPT ![v] = << >>]
    /\ closedAt' = [closedAt EXCEPT ![v] = emitted]
    /\ UNCHANGED <<current_game, nextId, gamePlayers, loading, isShuffling,
                   closure, responses, reply, clicks, input, shuffled, output,
                   emitted, received>>

\* part_000:37-66 every viewer mounted: empty projection, first fetchData
\* sent, socket open
Mounted ==
    /\ nextId = Len(current_game) + 1
    /\ gamePlayers = [v \in Viewers |-> << >>]
    /\ loading = [v \in Viewers |-> TRUE]
    /\ isShuffling = [v \in Viewers |-> FALSE]
    /\ closure = [v \in Viewers |-> << >>]
    /\ socket = [v \in Viewers |-> << >>]
    /\ open = [v \in Viewers |-> TRUE]
    /\ responses = [v \in Viewers |->
                        << [rows |-> current_game, version |-> 0] >>]
    /\ reply = Reply(0, "none", "none")
    /\ clicks = [v \in Viewers |-> 0]
    /\ emitted = 0
    /\ received = [v \in Viewers |-> 0]
    /\ closedAt = [v \in Viewers |-> -1]

\* The BalancingEngine harness at rest
Idle == input = << >> /\ shuffled = << >> /\ output = << >>

\* server.ts:12-28 the table as hockey.db holds it when the process starts
Init == current_game \in InitialGames /\ Mounted /\ Idle

Next ==
    \/ \E v \in Viewers : \E player \in Namesakes : signUp(v, player)
    \/ \E v \in Viewers : \E i \in 1..(CAPACITY + MaxClicks) : removeSignUp(v, i)
    \/ \E v \in Viewers : resetGame(v)
    \/ \E v \in Viewers : \E i \in 1..(CAPACITY + MaxClicks) : toggleTeam(v, i)
    \/ \E v \in Viewers : SplitBegin(v)
    \/ \E v \in Viewers : SplitEnd(v)
    \/ \E v \in Viewers : \E k \in 1..MaxFetch : FetchDone(v, k)
    \/ \E v \in Viewers : OnMessage(v)

Spec == Init /\ [][Next]_vars

(***************************************************************************)
(* The registry one signup below its capacity: the runs of signups,        *)
(* removals, overrides and resets from a table of CAPACITY - 1 rows        *)
(***************************************************************************)
CapacityInit == current_game = AlmostFull /\ Mounted /\ Idle

CapacityNext ==
    \/ \E v \in Viewers : \E player \in Regulars : signUp(v, player)
    \/ \E v \in Viewers : \E i \in 1..(CAPACITY + MaxClicks) : removeSignUp(v, i)
    \/ \E v \in Viewers : resetGame(v)
    \/ \E v \in Viewers : \E i \in 1..(CAPACITY + MaxClicks) : toggleTeam(v, i)
    \/ \E v \in Viewers : \E k \in 1..MaxFetch : FetchDone(v, k)
    \/ \E v \in Viewers : OnMessage(v)

CapacitySpec == CapacityInit /\ [][CapacityNext]_vars

(***************************************************************************)
(* Viewers whose connection drops: the runs of signups, removals,          *)
(* overrides and resets from a session of MIN_PLAYERS participants, with   *)
(* the connection of any viewer lost at any moment                         *)
(***************************************************************************)
ConnectionInit == current_game = InitialRows(MIN_PLAYERS) /\ Mounted /\ Idle

ConnectionNext ==
    \/ \E v \in Viewers : \E player \in Namesakes : signUp(v, player)
    \/ \E v \in Viewers : \E i \in 1..(CAPACITY + MaxClicks) : removeSignUp(v, i)
    \/ \E v \in Viewers : resetGame(v)
    \/ \E v \in Viewers : \E i \in 1..(CAPACITY + MaxClicks) : toggleTeam(v, i)
    \/ \E v \in Viewers : \E k \in 1..MaxFetch : FetchDone(v, k)
    \/ \E v \in Viewers : OnMessage(v)
    \/ \E v \in Viewers : Disconnect(v)

ConnectionSpec == ConnectionInit /\ [][ConnectionNext]_vars

(***************************************************************************)
(* The split route called by any client of the HTTP API: lists of up to    *)
(* MaxItems updates for the rows of a session of MIN_PLAYERS participants,  *)
(* well formed or not                                                      *)
(***************************************************************************)
Items == [id : 1..MIN_PLAYERS, team : Teams \cup {Unbindable}]
TeamsLists == UNION { [1..n -> Items] : n \in 1..MaxItems }

\* server.ts:87-100 POST /api/current-game/split with the body {teams}, sent
\* by a client that is no viewer (requester 0)
PostSplitDirect(teams) ==
    /\ Thrown(teams) \/ (Room /\ emitted < MaxPosts)
    /\ PostSplit(0, "split", teams)
    /\ UNCHANGED <<gamePlayers, loading, isShuffling, closure, open,
                   responses, clicks, input, shuffled, output, received,
                   closedAt>>

ApiInit == current_game = InitialRows(MIN_PLAYERS) /\ Mounted /\ Idle

ApiNext ==
    \/ \E teams \in TeamsLists : PostSplitDirect(teams)
    \/ \E v \in Viewers : \E k \in 1..MaxFetch : FetchDone(v, k)
    \/ \E v \in Viewers : OnMessage(v)

ApiSpec == ApiInit /\ [][ApiNext]_vars

(***************************************************************************)
(* BalancingEngine harness: splitTeams as a function of gamePlayers        *)
(***************************************************************************)
\* A projection of g goalies, d defenders and f forwards: in signup order with
\* no team yet, or (mixed) in the opposite order with teams left by earlier
\* splits and overrides
Roster(g, d, f, mixed) ==
    LET n == g + d + f
        position(i) == IF i <= g THEN "goalie"
                       ELSE IF i <= g + d THEN "defense" ELSE "forward"
        team(i) == IF i % 3 = 0 THEN "red" ELSE IF i % 3 = 1 THEN "blue" ELSE "null"
    IN  IF mixed
        THEN [i \in 1..n |->
                 Participant(n + 1 - i, n + 1 - i, position(n + 1 - i), team(i))]
        ELSE [i \in 1..n |-> Participant(i, i, position(i), "null")]

Rosters ==
    { Roster(g, d, f, mixed) :
        g \in 0..MaxGoalies, d \in 0..MaxDefenders, f \in 0..MaxForwards,
        mixed \in BOOLEAN }

SplitInit ==
    /\ input \in {r \in Rosters : Len(r) >= MIN_PLAYERS /\ Len(r) <= CAPACITY}
    /\ shuffled = << >>
    /\ output = << >>
    /\ current_game = << >>
    /\ Mounted

\* part_000:173-202 on the captured gamePlayers
Balance ==
    /\ output = << >>
    /\ \E rg, rd, rf \in 0..MaxDraw :
          /\ shuffled' = Pools(input, rg, rd, rf)
          /\ output' = TeamsUpdate(input, rg, rd, rf)
    /\ UNCHANGED <<current_game, nextId, gamePlayers, loading, isShuffling,
                   closure, socket, open, responses, reply, clicks, input,
                   emitted, received, closedAt>>

SplitNext == Balance

SplitSpec == SplitInit /\ [][SplitNext]_vars

(***************************************************************************)
(* Properties of signup                                                    *)
(***************************************************************************)
\* C1: in every reachable state the authoritative session holds at most 22
\* participants.
C1_AtMostCapacity == Len(current_game) <= CAPACITY

\* C2: a signup of a new name made while the session holds 21 participants
\* brings it to 22; one made while it holds 22 is rejected with the capacity
\* error, leaves the session unchanged and emits no event.
C2_CapacityBoundary ==
    [][\A v \in Viewers : \A player \in Regulars :
          (signUp(v, player) /\ ~existing(player.name)) =>
              /\ Len(current_game) = CAPACITY - 1 =>
                    /\ Len(current_game') = CAPACITY
                    /\ reply' = Reply(v, "signup", "ok")
              /\ Len(current_game) = CAPACITY =>
                    /\ current_game' = current_game
                    /\ socket' = socket
                    /\ reply' = Reply(v, "signup", "capacity")]_vars

\* C3: in every reachable state no two participants of the session share a
\* name, also when signups for one name are requested by different viewers
\* before either has seen the other's.
C3_NamesUnique ==
    \A i, j \in DOMAIN current_game :
        i # j => current_game[i].name # current_game[j].name

\* Viewer 1 and viewer 2 have each pressed one button; viewer 2's was a signup
\* for name 22, made before it saw the row viewer 1's signup had inserted
C3_ConcurrentSignups ==
    /\ clicks[1] = 1 /\ clicks[2] = 1
    /\ reply = Reply(2, "signup", "duplicate")
    /\ existing(22)
    /\ 22 \notin Names(gamePlayers[2])

\* C4: a signup request that reaches the registry with a name already in the
\* session, whatever its position, is rejected with the duplicate-name error:
\* the session is unchanged and no event is sent to any viewer.
C4_DuplicateRejected ==
    [][\A v \in Viewers : \A player \in Namesakes :
          (signUp(v, player) /\ existing(player.name)
              /\ Len(gamePlayers[v]) < CAPACITY) =>
              /\ current_game' = current_game
              /\ nextId' = nextId
              /\ socket' = socket
              /\ reply' = Reply(v, "signup", "duplicate")]_vars

\* A signup of viewer 1 was refused as a duplicate of the forward signed up
\* under name 22, which viewer 1 does not show yet
C4_DuplicateRefused ==
    /\ reply = Reply(1, "signup", "duplicate")
    /\ \E i \in DOMAIN current_game :
          current_game[i].name = 22 /\ current_game[i].position = "forward"
    /\ 22 \notin Names(gamePlayers[1])
    /\ \A v \in Viewers : Len(socket[v]) <= 1

(***************************************************************************)
(* Properties of the split                                                 *)
(***************************************************************************)
\* The team the update gives to id, unassigned when it names no such id
TeamIn(teamsUpdate, id) ==
    IF \E i \in DOMAIN teamsUpdate : teamsUpdate[i].id = id
    THEN teamsUpdate[CHOOSE i \in DOMAIN teamsUpdate : teamsUpdate[i].id = id].team
    ELSE "null"

\* Rows of position p that the update puts on team
Placed(rows, teamsUpdate, p, team) ==
    Cardinality({i \in DOMAIN rows :
        rows[i].position = p /\ TeamIn(teamsUpdate, rows[i].id) = team})

QuotasHold(rows) ==
    \A p \in Positions : \A team \in {"red", "blue"} :
        Count(rows, p, team) <= Quota(p)

\* C5: immediately after a split has been applied to the registry, each of
\* red and blue has at most 1 goalie, 4 defenders and 6 forwards in the
\* authoritative session, whatever was interleaved while it was suspended.
C5_QuotasAfterSplit ==
    [][(\E v \in Viewers : SplitEnd(v)) => QuotasHold(current_game')]_vars

\* C6 as stated: for each position, red and blue each get min(available, quota).
C6_EqualShares ==
    output # << >> =>
        \A p \in Positions : \A team \in {"red", "blue"} :
            Placed(input, output, p, team) = Min(Available(input, p), Quota(p))

\* C6 as amended: for each position red gets min(available, quota) and blue
\* gets min(max(available - quota, 0), quota).
C6_RedThenBlue ==
    output # << >> =>
        \A p \in Positions :
            /\ Placed(input, output, p, "red") = Min(Available(input, p), Quota(p))
            /\ Placed(input, output, p, "blue") =
                   Min(Max(Available(input, p) - Quota(p), 0), Quota(p))

\* A split of 1 goalie, between 5 and 7 defenders and 13 forwards
C6_UnevenPools ==
    /\ output # << >>
    /\ Available(input, "goalie") = GOALIE_QUOTA
    /\ Available(input, "defense") > DEFENSE_QUOTA
    /\ Available(input, "defense") < 2 * DEFENSE_QUOTA
    /\ Available(input, "forward") > 2 * FORWARD_QUOTA

IsPermutation(a, b) ==
    /\ Len(a) = Len(b)
    /\ \A i \in DOMAIN a : \E j \in DOMAIN b : a[i] = b[j]
    /\ \A j \in DOMAIN b : \E i \in DOMAIN a : a[i] = b[j]

\* Rows of position p that a split of rows assigns: min(pool size, 2 * quota)
Assignable(rows, p) == Min(Available(rows, p), 2 * Quota(p))

\* C7: whatever permutation each pool is shuffled to, the update gives red to
\* the first quota rows of the shuffled pool, blue to the next quota rows and
\* unassigned to the rest; the rows assigned number the sum over the positions
\* of min(pool size, 2 * quota); and the update names every input id once.
C7_Slices ==
    output # << >> =>
        /\ Len(output) = Len(input)
        /\ \A i \in DOMAIN input :
              output[i].id = input[i].id /\ output[i].team \in Teams
        /\ \A p \in Positions :
              /\ IsPermutation(shuffled[p], filter(input, p))
              /\ \A k \in DOMAIN shuffled[p] :
                    TeamIn(output, shuffled[p][k].id) =
                        IF k <= Quota(p) THEN "red"
                        ELSE IF k <= 2 * Quota(p) THEN "blue" ELSE "null"
        /\ Cardinality({i \in DOMAIN output : output[i].team # "null"}) =
               Assignable(input, "goalie") + Assignable(input, "defense")
                   + Assignable(input, "forward")

\* A split of rows that had teams, whose 13 forwards were shuffled out of
\* their order and whose last forward lost the team it had
C7_ShuffledOverflow ==
    /\ output # << >>
    /\ Len(shuffled.forward) > 2 * FORWARD_QUOTA
    /\ shuffled.forward # filter(input, "forward")
    /\ \E i \in DOMAIN input :
          /\ input[i].id = shuffled.forward[Len(shuffled.forward)].id
          /\ input[i].team # "null"
          /\ output[i].team = "null"

\* C8: immediately after a split has been applied to the registry, every
\* participant of the authoritative session has the team this split's update
\* gives it: red or blue for the rows of its quota slices, unassigned for every
\* other participant, whatever team an override or an earlier split had set.
C8_SplitResetsAll ==
    [][\A v \in Viewers : SplitEnd(v) =>
          \E rg, rd, rf \in 0..MaxRandom :
              LET teamsUpdate == TeamsUpdate(closure[v], rg, rd, rf)
              IN  \A i \in DOMAIN current_game' :
                      current_game'[i].team =
                          TeamIn(teamsUpdate, current_game'[i].id)]_vars

\* C9: a split request that reaches the registry while it holds fewer than 2
\* participants changes no team and emits no event.
C9_InsufficientPlayers ==
    [][\A v \in Viewers :
          (SplitEnd(v) /\ Len(current_game) < MIN_PLAYERS) =>
              (current_game' = current_game /\ socket' = socket)]_vars

\* C10: each override moves the authoritative team of its participant one
\* step along unassigned -> red -> blue -> unassigned.
C10_OneStepPerOverride ==
    [][\A v \in Viewers : \A i \in 1..(CAPACITY + MaxClicks) :
          toggleTeam(v, i) =>
              \A j \in DOMAIN current_game :
                  current_game[j].id = gamePlayers[v][i].id =>
                      current_game'[j].team = NextTeam(current_game[j].team)]_vars

(***************************************************************************)
(* Properties of the manual override                                       *)
(***************************************************************************)
\* C11: an override of one participant leaves the team of every other
\* participant of the authoritative session as it was, and the rows of the
\* session the same in number and order.
C11_OthersKeepTeam ==
    [][\A v \in Viewers : \A i \in Shown(v) :
          toggleTeam(v, i) =>
              /\ DOMAIN current_game' = DOMAIN current_game
              /\ \A j \in DOMAIN current_game :
                    current_game[j].id # gamePlayers[v][i].id =>
                        current_game'[j] = current_game[j]]_vars

\* An override has just been applied while another participant had a team,
\* and the two participants are on different teams
C11_OverrideBesideTeam ==
    /\ reply.op = "toggle"
    /\ \E i, j \in DOMAIN current_game :
          /\ current_game[i].team = "blue"
          /\ current_game[j].team = "red"

(***************************************************************************)
(* Properties of the viewer's event handling                               *)
(***************************************************************************)
\* The oldest event of viewer v's socket is a signup for an id that v's
\* projection holds already
DuplicateSignupAhead(v) ==
    /\ socket[v] # << >>
    /\ Head(socket[v]).type = "SIGNUP_UPDATE"
    /\ Head(socket[v]).data.id \in Ids(gamePlayers[v])

\* The oldest event of viewer v's socket is a removal of an id that v's
\* projection does not hold
AbsentRemovalAhead(v) ==
    /\ socket[v] # << >>
    /\ Head(socket[v]).type = "SIGNUP_REMOVED"
    /\ Head(socket[v]).id \notin Ids(gamePlayers[v])

\* C12: handling SIGNUP_UPDATE for an id already in the projection leaves the
\* projection unchanged; handling SIGNUP_REMOVED for an id not in it leaves it
\* unchanged; and applying the event handled a second time to the projection
\* it produced gives that projection again.
C12_PatchIdempotent ==
    [][\A v \in Viewers : OnMessage(v) =>
          LET message == Head(socket[v])
          IN  /\ DuplicateSignupAhead(v) => gamePlayers'[v] = gamePlayers[v]
              /\ AbsentRemovalAhead(v) => gamePlayers'[v] = gamePlayers[v]
              /\ message.type = "SIGNUP_UPDATE" =>
                    MergeSignup(gamePlayers'[v], message.data) = gamePlayers'[v]
              /\ message.type = "SIGNUP_REMOVED" =>
                    FilterRemoved(gamePlayers'[v], message.id) = gamePlayers'[v]]_vars

\* One viewer is about to handle a signup for a row a snapshot has given it
\* already, another a removal of a row that a snapshot took from it
C12_RedundantEvents ==
    \E v, w \in Viewers : DuplicateSignupAhead(v) /\ AbsentRemovalAhead(w)

\* C13: when a viewer handles GAME_RESET its projection is emptied at once,
\* before the snapshot it then fetches has arrived.
C13_ResetClearsProjection ==
    [][\A v \in Viewers :
          (OnMessage(v) /\ Head(socket[v]).type = "GAME_RESET") =>
              gamePlayers'[v] = << >>]_vars

\* C14: a viewer that completes a snapshot fetch has the projection the
\* registry served, whatever it showed before: when no mutation was applied
\* since the snapshot was read, the projection is the authoritative session,
\* row for row with the same team fields.
C14_FetchCatchesUp ==
    [][\A v \in Viewers : \A k \in 1..MaxFetch :
          (FetchDone(v, k) /\ responses[v][k].rows = current_game) =>
              gamePlayers'[v] = current_game']_vars

\* A viewer that has pressed no button shows the authoritative session with a
\* team that only a snapshot can have given it (TEAMS_UPDATED carries none),
\* after a signup whose row it holds
C14_CaughtUpWithTeams ==
    \E v \in Viewers :
        /\ clicks[v] = 0
        /\ gamePlayers[v] = current_game
        /\ responses[v] = << >>
        /\ Len(current_game) > MIN_PLAYERS
        /\ \E i \in DOMAIN current_game : current_game[i].team # "null"

(***************************************************************************)
(* Properties of the broadcaster                                           *)
(***************************************************************************)
\* C15: every viewer handles events in the order in which the registry
\* emitted them: the event it handles was emitted after every event it has
\* handled before and before every event still waiting in its socket.
C15_EmissionOrder ==
    [][\A v \in Viewers : OnMessage(v) =>
          /\ received[v] < Head(socket[v]).seq
          /\ \A i \in DOMAIN socket'[v] : Head(socket[v]).seq < socket'[v][i].seq]_vars

\* A viewer has handled the events of two mutations and the event of a third
\* waits in its socket
C15_ThreeEvents ==
    \E v \in Viewers :
        /\ received[v] = 2
        /\ socket[v] # << >>
        /\ emitted = 3

\* One event of the given type was emitted in this step: it is the newest
\* event of every open socket, behind what waited there, and no other socket
\* changed
EmitsOne(type) ==
    /\ emitted' = emitted + 1
    /\ \A w \in Viewers :
          IF open[w]
          THEN /\ Len(socket'[w]) = Len(socket[w]) + 1
               /\ SubSeq(socket'[w], 1, Len(socket[w])) = socket[w]
               /\ socket'[w][Len(socket'[w])].type = type
               /\ socket'[w][Len(socket'[w])].seq = emitted'
          ELSE socket'[w] = socket[w]

\* The newest event of the first open socket
Newest(sockets) ==
    LET w == CHOOSE w \in Viewers : open[w]
    IN  sockets[w][Len(sockets[w])]

\* C16: every mutation the registry accepts is applied and emits exactly one
\* event of its type in the same step of the registry (a signup SIGNUP_UPDATE
\* with the row inserted, a removal SIGNUP_REMOVED with the id, an override or
\* a split TEAMS_UPDATED, a reset GAME_RESET), and the snapshot a viewer
\* fetches on handling TEAMS_UPDATED or GAME_RESET was read after the
\* mutation of that event was applied.
C16_ApplyThenEmit ==
    [][\A v \in Viewers :
          /\ \A player \in Regulars :
                (signUp(v, player) /\ reply'.result = "ok") =>
                    /\ EmitsOne("SIGNUP_UPDATE")
                    /\ current_game' = Append(current_game, Newest(socket').data)
                    /\ Newest(socket').data.name = player.name
                    /\ Newest(socket').data.position = player.position
          /\ \A i \in Shown(v) :
                /\ removeSignUp(v, i) =>
                      /\ EmitsOne("SIGNUP_REMOVED")
                      /\ Newest(socket').id = gamePlayers[v][i].id
                      /\ gamePlayers[v][i].id \notin Ids(current_game')
                /\ toggleTeam(v, i) =>
                      /\ EmitsOne("TEAMS_UPDATED")
                      /\ \A j \in DOMAIN current_game' :
                            current_game'[j].id = gamePlayers[v][i].id =>
                                current_game'[j].team =
                                    NextTeam(gamePlayers[v][i].team)
          /\ SplitEnd(v) =>
                /\ EmitsOne("TEAMS_UPDATED")
                /\ \A j \in DOMAIN current_game' :
                      current_game'[j].id \in Ids(closure[v]) =>
                          current_game'[j].team \in
                              {TeamIn(TeamsUpdate(closure[v], rg, rd, rf),
                                      current_game'[j].id) :
                                  rg \in 0..MaxRandom, rd \in 0..MaxRandom,
                                  rf \in 0..MaxRandom}
          /\ resetGame(v) =>
                EmitsOne("GAME_RESET") /\ current_game' = << >>
          /\ (OnMessage(v) /\ Head(socket[v]).type \in {"TEAMS_UPDATED", "GAME_RESET"}) =>
                /\ Len(responses'[v]) = Len(responses[v]) + 1
                /\ responses'[v][Len(responses'[v])].version >= Head(socket[v]).seq
                /\ responses'[v][Len(responses'[v])].rows = current_game]_vars

\* A viewer that has handled the event of the first mutation waits for the
\* snapshot it fetched in reaction, which the registry read after it had
\* applied a second mutation
C16_FetchAfterMutation ==
    \E v \in Viewers :
        /\ ~loading[v]
        /\ received[v] = 1
        /\ responses[v] # << >>
        /\ responses[v][1].version = 2
        /\ responses[v][1].rows = current_game

(***************************************************************************)
(* Properties of reset and of failing requests                             *)
(***************************************************************************)
\* C17: every reset, also of a session that is empty already, leaves the
\* session empty and emits one GAME_RESET: two resets in a row leave it empty
\* after each and emit two events.
C17_ResetIdempotent ==
    [][\A v \in Viewers : resetGame(v) =>
          /\ current_game' = << >>
          /\ EmitsOne("GAME_RESET")]_vars

\* Two resets in a row were applied to a session of MIN_PLAYERS rows: the
\* session is empty and a viewer has both GAME_RESET events waiting
C17_ResetTwice ==
    /\ current_game = << >>
    /\ reply.op = "reset"
    /\ emitted = 2
    /\ \E v \in Viewers :
          /\ Len(socket[v]) = 2
          /\ \A i \in DOMAIN socket[v] : socket[v][i].type = "GAME_RESET"

\* The team the last update of the list for id asks for
LastTeamFor(teams, id) ==
    LET hits == {i \in DOMAIN teams : teams[i].id = id}
    IN  teams[CHOOSE i \in hits : \A j \in hits : j <= i].team

\* C18: a split request either applies every update of its list and emits
\* TEAMS_UPDATED, or, when an update of the list fails, leaves every row of
\* the session as it was before the request, emits no event and is answered
\* with an error.
C18_AllOrNothing ==
    [][\A teams \in TeamsLists : PostSplitDirect(teams) =>
          IF \E i \in DOMAIN teams : teams[i].team = Unbindable
          THEN /\ current_game' = current_game
               /\ socket' = socket
               /\ emitted' = emitted
               /\ reply' = Reply(0, "split", "error")
          ELSE /\ EmitsOne("TEAMS_UPDATED")
               /\ reply' = Reply(0, "split", "ok")
               /\ DOMAIN current_game' = DOMAIN current_game
               /\ \A j \in DOMAIN current_game :
                     current_game'[j] =
                         IF \E i \in DOMAIN teams : teams[i].id = current_game[j].id
                         THEN [current_game[j] EXCEPT
                                  !.team = LastTeamFor(teams, current_game[j].id)]
                         ELSE current_game[j]]_vars

\* A request has just failed on a session in which earlier requests had put
\* one participant on red and the other on blue
C18_FailedOnTeams ==
    /\ reply = Reply(0, "split", "error")
    /\ \E i, j \in DOMAIN current_game :
          current_game[i].team = "red" /\ current_game[j].team = "blue"

(***************************************************************************)
(* Properties of the suspended split                                       *)
(***************************************************************************)
\* rows are split as the balancing rules split them: for every position red
\* has the first quota of the pool and blue what follows, up to its quota
ValidSplit(rows) ==
    \A p \in Positions :
        /\ Count(rows, p, "red") = Min(Available(rows, p), Quota(p))
        /\ Count(rows, p, "blue") =
               Min(Max(Available(rows, p) - Quota(p), 0), Quota(p))

\* C19: when a suspended split completes, the teams of the authoritative
\* session are a valid split of the participants it holds at that moment,
\* also when signups, removals or overrides were applied during the
\* suspension.
C19_SplitOfCurrentSession ==
    [][(\E v \in Viewers : SplitEnd(v)) => ValidSplit(current_game')]_vars

(***************************************************************************)
(* Properties of viewers that are not connected                            *)
(***************************************************************************)
\* Some viewer's connection is not open
SomeClosed == \E w \in Viewers : ~open[w]

\* C21: while the connection of some viewer is not open, every mutation a
\* viewer requests is still applied and answered, and its event is delivered
\* to every viewer whose connection is open; a reset can be requested
\* whenever the open sockets have room, whatever the other sockets hold.
C21_ClosedNeverBlocks ==
    [][SomeClosed =>
          \A v \in Viewers :
              /\ (Ready(v) /\ Room) => ENABLED resetGame(v)
              /\ resetGame(v) =>
                    /\ EmitsOne("GAME_RESET")
                    /\ current_game' = << >>
                    /\ reply' = Reply(v, "reset", "ok")
              /\ \A player \in Namesakes :
                    (signUp(v, player) /\ ~existing(player.name)) =>
                        /\ EmitsOne("SIGNUP_UPDATE")
                        /\ Len(current_game') = Len(current_game) + 1
                        /\ reply' = Reply(v, "signup", "ok")
              /\ \A i \in Shown(v) :
                    /\ removeSignUp(v, i) =>
                          /\ EmitsOne("SIGNUP_REMOVED")
                          /\ gamePlayers[v][i].id \notin Ids(current_game')
                          /\ reply' = Reply(v, "remove", "ok")
                    /\ toggleTeam(v, i) =>
                          /\ EmitsOne("TEAMS_UPDATED")
                          /\ reply' = Reply(v, "toggle", "ok")]_vars

\* The connection of viewer 1 closed before any event was emitted; two
\* mutations were applied and answered since, and both events wait in the
\* socket of viewer 2
C21_DeliveredPastClosed ==
    /\ ~open[1] /\ open[2]
    /\ closedAt[1] = 0
    /\ emitted = 2
    /\ reply.result = "ok"
    /\ Len(socket[2]) = 2
    /\ socket[2][2].seq = emitted

(***************************************************************************)
(* Properties of teams, membership and ids                                 *)
(***************************************************************************)
\* The row of rows with the given id has the given team
HasTeam(rows, id, team) ==
    \E i \in DOMAIN rows : rows[i].id = id /\ rows[i].team = team

\* This step applies an override or a split whose update names id
Targets(id) ==
    \E v \in Viewers :
        \/ \E i \in Shown(v) : toggleTeam(v, i) /\ gamePlayers[v][i].id = id
        \/ SplitEnd(v) /\ id \in Ids(closure[v])

\* C22: a participant has a team only through an override or a split whose
\* update names it: in every step a row of the session that has a team had
\* that team before the step or is named by the override or split applied in
\* it, a row that a signup inserts has none, and handling an event gives no
\* row of a projection a team.
C22_TeamOnlyWhenTargeted ==
    [][/\ \A j \in DOMAIN current_game' :
             current_game'[j].team # "null" =>
                 \/ HasTeam(current_game, current_game'[j].id, current_game'[j].team)
                 \/ Targets(current_game'[j].id)
       /\ \A j \in DOMAIN current_game' :
             current_game'[j].id \notin Ids(current_game) =>
                 current_game'[j].team = "null"
       /\ \A v \in Viewers : OnMessage(v) =>
             \A j \in DOMAIN gamePlayers'[v] :
                 gamePlayers'[v][j].team # "null" =>
                     HasTeam(gamePlayers[v], gamePlayers'[v][j].id,
                             gamePlayers'[v][j].team)]_vars

\* A split has put participants 1 and 2 on teams; the participant signed up
\* since the session started, whom the split did not name, has none
C22_NewcomerUnassigned ==
    /\ reply.op = "split"
    /\ \E i \in DOMAIN current_game :
          current_game[i].id > MIN_PLAYERS /\ current_game[i].team = "null"
    /\ \E i \in DOMAIN current_game :
          current_game[i].id <= MIN_PLAYERS /\ current_game[i].team # "null"

\* Nothing is on its way: no event waits in a socket, no response of a fetch
\* is outstanding and no split is suspended
Quiet ==
    \A v \in Viewers :
        socket[v] = << >> /\ responses[v] = << >> /\ ~isShuffling[v]

Rows(rows) == {rows[i] : i \in DOMAIN rows}

\* C23: once every event and every response of a fetch has been delivered,
\* the projection of every viewer holds exactly the participants of the
\* authoritative session, each with its team.
C23_NoLostUpdate ==
    Quiet => \A v \in Viewers : Rows(gamePlayers[v]) = Rows(current_game)

\* Who is in the session: id, name and position of every row, in row order
Members(rows) ==
    [i \in DOMAIN rows |->
        [id |-> rows[i].id, name |-> rows[i].name, position |-> rows[i].position]]

\* C24: an override or a split leaves the ids, names and positions of the
\* session as they were, and when none of the ids it names is in the session
\* any more it leaves every row as it was.
C24_MembershipKept ==
    [][\A v \in Viewers :
          /\ SplitEnd(v) =>
                /\ Members(current_game') = Members(current_game)
                /\ Ids(closure[v]) \cap Ids(current_game) = {} =>
                      current_game' = current_game
          /\ \A i \in Shown(v) : toggleTeam(v, i) =>
                /\ Members(current_game') = Members(current_game)
                /\ gamePlayers[v][i].id \notin Ids(current_game) =>
                      current_game' = current_game]_vars

\* A split was applied to a session of one participant: a participant the
\* split names was no longer in the session
C24_SplitPastRemoval ==
    /\ reply = Reply(reply.viewer, "split", "ok")
    /\ Len(current_game) = 1

\* Every id a viewer holds: in its projection, in the rows a suspended split
\* captured and in the snapshots on their way to it
KnownIds(v) ==
    Ids(gamePlayers[v]) \cup Ids(closure[v])
        \cup UNION {Ids(responses[v][k].rows) : k \in DOMAIN responses[v]}

\* C25: the ids of the session are distinct, and every signup gets an id
\* greater than every id issued before it, also after removals and resets:
\* the new id is greater than every id of the session and than every id a
\* viewer still holds, and the id sequence never goes back.
C25_IdsNeverReused ==
    [][/\ nextId' >= nextId
       /\ \A i, j \in DOMAIN current_game' :
             i # j => current_game'[i].id # current_game'[j].id
       /\ \A v \in Viewers : \A player \in Regulars :
             (signUp(v, player) /\ reply'.result = "ok") =>
                 LET id == current_game'[Len(current_game')].id
                 IN  /\ id >= nextId
                     /\ nextId' > id
                     /\ \A other \in Ids(current_game) : other < id
                     /\ \A w \in Viewers : \A other \in KnownIds(w) : other < id]_vars

\* A signup was accepted after the MIN_PLAYERS participants the session
\* started with had left it, while a viewer still showed one of them
C25_SignupAfterDeparture ==
    /\ reply.op = "signup" /\ reply.result = "ok"
    /\ Len(current_game) = 1
    /\ current_game[1].id > MIN_PLAYERS
    /\ \E v \in Viewers : \E id \in Ids(gamePlayers[v]) : id <= MIN_PLAYERS

====
